---- MODULE Spec2Model ----
(***************************************************************************)
(* Model of src/book_club_app.py: the Open Library search adapter          *)
(* (BookClubApp.search_books), the Hugging Face generation adapter         *)
(* (call_huggingface_ai, generate_ai_summary,                              *)
(* generate_discussion_questions) and the Streamlit page (main).           *)
(*                                                                         *)
(* Python values: a str is a TLA+ string (TLC evaluates Len, \o and SubSeq *)
(* on strings, so text is handled character by character); a list is a     *)
(* sequence; an optional value is None (<<>>) or Some(v) (<<v>>).          *)
(***************************************************************************)
EXTENDS Integers, Sequences, FiniteSets, TLC

VARIABLES
    call,              \* harness: the inputs of the adapter call under test
    returned,          \* harness: the values the adapter calls returned, in order
    hf_token,          \* app.hf_token (secrets / environment / sidebar)
    books,             \* st.session_state.books
    search_performed,  \* st.session_state.search_performed
    event,             \* the widget event the last script run handled
    http,              \* the HTTP requests of the last run, with their outcomes
    shown,             \* the generated content the last run rendered
    requested,         \* history: cache keys of the books generated for so far
    rng                \* hidden state of the module-level random generator

vars == <<call, returned, hf_token, books, search_performed, event, http,
          shown, requested, rng>>

-----------------------------------------------------------------------------
(* Python values *)

None == <<>>
Some(v) == <<v>>
Get(o, default) == IF o = None THEN default ELSE o[1]

\* bool(x) of an optional str: None and "" are falsy
Truthy(o) == o # None /\ o[1] # ""

\* bool(x) of an optional list: None and [] are falsy
TruthyList(o) == o # None /\ o[1] # <<>>

Min(a, b) == IF a <= b THEN a ELSE b

CharAt(s, i) == SubSeq(s, i, i)

Whitespace == {" ", "\t", "\n", "\r", "\f"}

\* str.strip()
Strip(s) ==
    LET solid(i) == CharAt(s, i) \notin Whitespace
    IN  IF \A i \in 1..Len(s) : ~solid(i) THEN ""
        ELSE LET lo == CHOOSE i \in 1..Len(s) :
                           solid(i) /\ \A j \in 1..(i - 1) : ~solid(j)
                 hi == CHOOSE i \in 1..Len(s) :
                           solid(i) /\ \A j \in (i + 1)..Len(s) : ~solid(j)
             IN  SubSeq(s, lo, hi)

UpperLetters == "ABCDEFGHIJKLMNOPQRSTUVWXYZ"
LowerLetters == "abcdefghijklmnopqrstuvwxyz"

\* the lower-case letter of each upper-case letter
LowerOf ==
    [c \in {CharAt(UpperLetters, i) : i \in 1..Len(UpperLetters)} |->
        CharAt(LowerLetters, CHOOSE i \in 1..Len(UpperLetters) : CharAt(UpperLetters, i) = c)]

LowerChar(c) == IF c \in DOMAIN LowerOf THEN LowerOf[c] ELSE c

\* str.lower(): every character lower-cased (the string is halved, to keep
\* the evaluation shallow)
RECURSIVE Lower(_)
Lower(s) ==
    IF Len(s) = 0 THEN ""
    ELSE IF Len(s) = 1 THEN LowerChar(s)
    ELSE LET half == Len(s) \div 2
         IN  Lower(SubSeq(s, 1, half)) \o Lower(SubSeq(s, half + 1, Len(s)))

\* str.startswith(prefix)
StartsWith(s, prefix) ==
    Len(prefix) <= Len(s) /\ SubSeq(s, 1, Len(prefix)) = prefix

\* sub in s
Contains(s, sub) ==
    \E i \in 1..(Len(s) - Len(sub) + 1) : SubSeq(s, i, i + Len(sub) - 1) = sub

\* str.split(sep) for a one-character separator
RECURSIVE Split(_, _)
Split(s, sep) ==
    LET at == {i \in 1..Len(s) : CharAt(s, i) = sep}
    IN  IF at = {} THEN <<s>>
        ELSE LET first == CHOOSE i \in at : \A j \in at : i <= j
             IN  <<SubSeq(s, 1, first - 1)>>
                 \o Split(SubSeq(s, first + 1, Len(s)), sep)

\* sep.join(parts)
RECURSIVE Join(_, _)
Join(parts, sep) ==
    IF parts = <<>> THEN ""
    ELSE IF Len(parts) = 1 THEN parts[1]
    ELSE parts[1] \o sep \o Join(Tail(parts), sep)

\* seq[:n]
Take(seq, n) == SubSeq(seq, 1, Min(n, Len(seq)))

Range(seq) == {seq[i] : i \in 1..Len(seq)}

-----------------------------------------------------------------------------
(* BookClubApp.search_books *)

SearchUrl == "https://openlibrary.org/search.json"

SearchFields ==
    "key,title,author_name,first_publish_year,subject,isbn,cover_i,ratings_average,ratings_count"

AnyGenre == "Any Genre"

GenreMapping == <<
    <<"Fiction", "fiction">>,
    <<"Mystery", "mystery">>,
    <<"Romance", "romance">>,
    <<"Science Fiction", "science fiction">>,
    <<"Fantasy", "fantasy">>,
    <<"Biography", "biography">>,
    <<"History", "history">>,
    <<"Self-Help", "self help">>,
    <<"Business", "business">>,
    <<"Philosophy", "philosophy">>,
    <<"Psychology", "psychology">>,
    <<"Poetry", "poetry">>,
    <<"Horror", "horror">>,
    <<"Thriller", "thriller">>,
    <<"Adventure", "adventure">> >>

\* slip: the mapping table dropped, every genre lower-cased
SearchTermLowerOnly(genre) == Lower(genre)

\* genre_mapping.get(genre, genre.lower())
SearchTerm(genre) ==
    LET hit == {i \in 1..Len(GenreMapping) : GenreMapping[i][1] = genre}
    IN  IF hit = {} THEN Lower(genre)
        ELSE GenreMapping[CHOOSE i \in hit : TRUE][2]

Quoted(field, value) == field \o ":\"" \o value \o "\""

\* title and title.strip()
HasText(o) == Truthy(o) /\ Strip(o[1]) # ""

\* genre and genre != "Any Genre"
HasGenre(genre) == Truthy(genre) /\ genre[1] # AnyGenre

\* slip: the genre clause put first
SearchPartsGenreFirst(genre, author, title) ==
       (IF HasGenre(genre) THEN <<Quoted("subject", SearchTerm(genre[1]))>> ELSE <<>>)
    \o (IF HasText(title) THEN <<Quoted("title", Strip(title[1]))>> ELSE <<>>)
    \o (IF HasText(author) THEN <<Quoted("author", Strip(author[1]))>> ELSE <<>>)

SearchParts(genre, author, title) ==
       (IF HasText(title) THEN <<Quoted("title", Strip(title[1]))>> ELSE <<>>)
    \o (IF HasText(author) THEN <<Quoted("author", Strip(author[1]))>> ELSE <<>>)
    \o (IF HasGenre(genre) THEN <<Quoted("subject", SearchTerm(genre[1]))>> ELSE <<>>)

\* the params of the GET: q, or subject, beside limit, has_fulltext and fields
SearchParams(genre, author, title, limit) ==
    LET search_parts == SearchParts(genre, author, title)
        base == [limit |-> limit, has_fulltext |-> "true", fields |-> SearchFields]
    IN  IF search_parts # <<>>
        THEN base @@ [q |-> Some(Join(search_parts, " AND ")), subject |-> None]
        ELSE IF HasGenre(genre)
        THEN base @@ [q |-> None, subject |-> Some(SearchTerm(genre[1]))]
        ELSE base @@ [q |-> Some("fiction"), subject |-> None]

SubjectLimit == 5

\* the catalog's answers that make requests.get, raise_for_status or json() raise
CatalogFailures == {"transport_error", "timeout", "http_error", "not_json"}

\* slip: the filter looks at the title only
DocKeptTitleOnly(doc) == Truthy(doc.title)

\* a doc passes the filter: book.get('title') and book.get('author_name')
DocKept(doc) == Truthy(doc.title) /\ TruthyList(doc.author_name)

\* the dict appended for a kept doc
BookOf(doc) ==
    [title        |-> Get(doc.title, "Unknown Title"),
     authors      |-> Get(doc.author_name, <<"Unknown Author">>),
     year         |-> doc.first_publish_year,
     subjects     |-> Take(IF doc.subject[1] = "list" THEN doc.subject[2] ELSE <<>>,
                           SubjectLimit),
     isbn         |-> IF TruthyList(doc.isbn) THEN Some(doc.isbn[1][1]) ELSE None,
     cover_id     |-> doc.cover_i,
     rating       |-> doc.ratings_average,
     rating_count |-> doc.ratings_count]

\* what makes the loop over data.get('docs', []) raise: docs that is no list, an
\* entry that is no dict (no .get), a kept entry whose subject is null (None[:5])
DocRaises(doc) ==
    \/ doc.kind # "dict"
    \/ DocKept(doc) /\ doc.subject[1] = "null"

BodyRaises(body) ==
    \/ body.type # "object"
    \/ body.docs[1] = "null"
    \/ body.docs[1] = "list" /\ \E i \in 1..Len(body.docs[2]) : DocRaises(body.docs[2][i])

\* the loop: one record per kept doc, in the order of the docs
RECURSIVE KeptBooks(_)
KeptBooks(docs) ==
    IF docs = <<>> THEN <<>>
    ELSE (IF DocKept(docs[1]) THEN <<BookOf(docs[1])>> ELSE <<>>)
         \o KeptBooks(Tail(docs))

\* the try block: the request, then the records of the kept docs
SearchTry(genre, author, title, limit, catalog) ==
    IF catalog.kind \in CatalogFailures \/ BodyRaises(catalog.body)
    THEN [raised |-> TRUE, value |-> <<>>]
    ELSE [raised |-> FALSE,
          value  |-> KeptBooks(IF catalog.body.docs[1] = "list"
                               THEN catalog.body.docs[2] ELSE <<>>)]

\* slip: no except clause, the exception leaves search_books
SearchBooksUncaught(genre, author, title, limit, catalog) ==
    LET try == SearchTry(genre, author, title, limit, catalog)
    IN  [raised |-> try.raised, value |-> try.value, error_shown |-> FALSE]

\* except Exception: st.error(...); return []
SearchBooks(genre, author, title, limit, catalog) ==
    LET try == SearchTry(genre, author, title, limit, catalog)
    IN  IF try.raised
        THEN [raised |-> FALSE, value |-> <<>>, error_shown |-> TRUE]
        ELSE [raised |-> FALSE, value |-> try.value, error_shown |-> FALSE]

\* the one GET of search_books, as logged
CatalogGet(genre, author, title, limit, catalog) ==
    [method |-> "GET", url |-> SearchUrl,
     params |-> SearchParams(genre, author, title, limit),
     outcome |-> catalog.kind]

-----------------------------------------------------------------------------
(* The module-level random generator.  Its hidden state is seeded from the  *)
(* operating system when the module is imported, so it starts anywhere; a   *)
(* draw is a function of the state and advances it.                         *)

RngStates == 3

Randbelow(r, n) == r % n
Advance(r, draws) == (r + draws) % RngStates

\* random.choice(seq): seq[randbelow(len(seq))]
Choice(seq, r) == seq[Randbelow(r, Len(seq)) + 1]

\* random.sample(population, k), the pool form CPython uses for a population
\* this small: result[i] = pool[j] for j = randbelow(n - i), then
\* pool[j] = pool[n - i - 1]
RECURSIVE SamplePool(_, _, _, _)
SamplePool(pool, n, k, r) ==
    IF k = 0 THEN <<>>
    ELSE \* p, s and j name the values of pool, r and the draw, each computed once
         CHOOSE result \in
             {<<p[j]>> \o SamplePool([p EXCEPT ![j] = p[n]], n - 1, k - 1, Advance(s, 1)) :
                 p \in {pool}, s \in {r}, j \in {Randbelow(r, n) + 1}} : TRUE

\* slip: drawn with replacement (the pool is not updated)
RECURSIVE DrawnWithReplacement(_, _, _, _)
DrawnWithReplacement(pool, n, k, r) ==
    IF k = 0 THEN <<>>
    ELSE <<pool[Randbelow(r, n) + 1]>>
         \o DrawnWithReplacement(pool, n, k - 1, Advance(r, 1))

SampleWithReplacement(population, k, r) ==
    DrawnWithReplacement(population, Len(population), k, r)

Sample(population, k, r) == SamplePool(population, Len(population), k, r)

-----------------------------------------------------------------------------
(* BookClubApp._fallback_ai_response and call_huggingface_ai *)

FallbackSummary ==
    "This book offers readers a compelling narrative that explores deep themes and human experiences. The author weaves together engaging characters and thought-provoking scenarios that challenge readers to examine important life questions. Through masterful storytelling, this work provides both entertainment and insight into the human condition."

FallbackDiscussion ==
    "This book presents fascinating themes that would make for excellent book club discussion. Consider exploring the character development, thematic elements, and how the story relates to contemporary issues."

\* slip: nothing is substituted for a failed call
FallbackEmpty(prompt) == ""

FallbackAiResponse(prompt) ==
    IF Contains(Lower(prompt), "summary") THEN FallbackSummary ELSE FallbackDiscussion

HfApiUrl == "https://api-inference.huggingface.co/models/gpt2"

\* A backend answer is [kind, text]:
\*   "exception"    requests.post raises (transport error, timeout)
\*   "status"       a status code other than 200
\*   "not_json"     200, and response.json() raises
\*   "json_dict"    200, a JSON object (such as {"error": ...})
\*   "empty_list"   200, []
\*   "scalar_item"  200, a list whose first element has no .get
\*   "no_text"      200, [{}]: no generated_text
\*   "text"         200, [{"generated_text": text}]
HfRaises == {"exception", "not_json", "scalar_item"}

\* slip: every leading copy of the prompt is removed
RECURSIVE CleanGeneratedRepeatedly(_, _)
CleanGeneratedRepeatedly(generated_text, prompt) ==
    IF prompt # "" /\ StartsWith(generated_text, prompt)
    THEN CleanGeneratedRepeatedly(
             Strip(SubSeq(generated_text, Len(prompt) + 1, Len(generated_text))), prompt)
    ELSE generated_text

\* generated_text after the clean-up of lines 205-206
CleanGenerated(generated_text, prompt) ==
    IF StartsWith(generated_text, prompt)
    THEN Strip(SubSeq(generated_text, Len(prompt) + 1, Len(generated_text)))
    ELSE generated_text

\* the try block of call_huggingface_ai
HfTry(prompt, resp) ==
    IF resp.kind \in HfRaises THEN [raised |-> TRUE, value |-> ""]
    ELSE IF resp.kind = "text"
    THEN LET generated_text == CleanGenerated(resp.text, prompt)
         IN  [raised |-> FALSE,
              value  |-> IF generated_text # "" THEN generated_text
                         ELSE FallbackAiResponse(prompt)]
    ELSE [raised |-> FALSE, value |-> FallbackAiResponse(prompt)]

\* slip: no except clause, the exception leaves call_huggingface_ai
CallHuggingfaceAiUncaught(token, prompt, resp) ==
    IF ~Truthy(token)
    THEN [value |-> FallbackAiResponse(prompt), posted |-> FALSE,
          warned |-> FALSE, raised |-> FALSE]
    ELSE [value |-> HfTry(prompt, resp).value, posted |-> TRUE,
          warned |-> FALSE, raised |-> HfTry(prompt, resp).raised]

\* slip: the test of the token is missing, the POST is made without one
CallHuggingfaceAiAlways(token, prompt, resp) ==
    IF HfTry(prompt, resp).raised
    THEN [value |-> FallbackAiResponse(prompt), posted |-> TRUE,
          warned |-> TRUE, raised |-> FALSE]
    ELSE [value |-> HfTry(prompt, resp).value, posted |-> TRUE,
          warned |-> FALSE, raised |-> FALSE]

\* call_huggingface_ai(prompt): the text returned, whether a POST was made,
\* whether st.warning was shown, whether an exception left the method
CallHuggingfaceAi(token, prompt, resp) ==
    IF ~Truthy(token)
    THEN [value |-> FallbackAiResponse(prompt), posted |-> FALSE,
          warned |-> FALSE, raised |-> FALSE]
    ELSE IF HfTry(prompt, resp).raised
    THEN [value |-> FallbackAiResponse(prompt), posted |-> TRUE,
          warned |-> TRUE, raised |-> FALSE]
    ELSE [value |-> HfTry(prompt, resp).value, posted |-> TRUE,
          warned |-> FALSE, raised |-> FALSE]

\* the POST of call_huggingface_ai, as logged
HfPost(prompt, max_length, resp) ==
    [method |-> "POST", url |-> HfApiUrl, prompt |-> prompt,
     max_length |-> max_length, outcome |-> resp.kind]

-----------------------------------------------------------------------------
(* BookClubApp.generate_ai_summary *)

SummaryAuthorText(authors) == Join(Take(authors, 2), ", ")

SummarySubjectsText(subjects) ==
    IF subjects # <<>> THEN Join(Take(subjects, 3), ", ") ELSE "general literature"

SummaryPrompt(book_title, authors, subjects) ==
    LET author_text == SummaryAuthorText(authors)
        subjects_text == SummarySubjectsText(subjects)
    IN  "Write a thoughtful book summary: '" \o book_title \o "' by " \o author_text \o " is a book about " \o subjects_text \o ". This book"

SummaryTemplates(book_title, author_text, subjects_text) == <<
    "'" \o book_title \o "' by " \o author_text \o " is a captivating work that delves into " \o subjects_text \o ". This book offers readers a unique perspective on human nature and society, weaving together compelling characters with thought-provoking scenarios. The author's masterful storytelling creates an immersive experience that challenges readers to examine their own beliefs and assumptions.",
    "In '" \o book_title \o "', " \o author_text \o " delivers a powerful narrative centered around " \o subjects_text \o ". The book presents a rich tapestry of characters and situations that illuminate deeper truths about the human condition. Readers will find themselves drawn into a world that is both familiar and surprising, with insights that linger long after the final page.",
    "'" \o book_title \o "' by " \o author_text \o " stands as a remarkable exploration of " \o subjects_text \o ". The work combines engaging storytelling with profound insights, offering readers both entertainment and enlightenment. Through skillful character development and plot construction, the author creates a memorable reading experience that resonates with diverse audiences." >>

SummaryMaxLength == 250
MinAiLength == 50

\* the summary built around a long enough ai_response (line 313)
SummaryAround(book_title, author_text, subjects_text, ai_response) ==
    "'" \o book_title \o "' by " \o author_text \o " explores themes of " \o subjects_text \o ". " \o ai_response

\* generate_ai_summary: the summary, what call_huggingface_ai did, the draws used
GenerateAiSummary(token, book_title, authors, subjects, resp, r) ==
    LET author_text == SummaryAuthorText(authors)
        subjects_text == SummarySubjectsText(subjects)
        prompt == SummaryPrompt(book_title, authors, subjects)
        Result(ai) ==
            LET long == ai.value # "" /\ Len(ai.value) > MinAiLength
            IN  [value  |-> IF long
                            THEN SummaryAround(book_title, author_text, subjects_text,
                                               ai.value)
                            ELSE Choice(SummaryTemplates(book_title, author_text,
                                                         subjects_text), r),
                 ai     |-> ai.value,
                 posts  |-> IF ai.posted
                            THEN <<HfPost(prompt, SummaryMaxLength, resp)>> ELSE <<>>,
                 raised |-> ai.raised,
                 draws  |-> IF long THEN 0 ELSE 1]
    IN  \* ai_response = self.call_huggingface_ai(prompt, max_length=250)
        CHOOSE result \in
            {Result(ai_response) :
                ai_response \in {CallHuggingfaceAi(token, prompt, resp)}} : TRUE

-----------------------------------------------------------------------------
(* BookClubApp.generate_discussion_questions *)

QuestionsAuthorText(authors) == IF authors # <<>> THEN authors[1] ELSE "the author"

QuestionsSubjectText(subjects) == IF subjects # <<>> THEN subjects[1] ELSE "life"

QuestionsPrompt(book_title, subjects) ==
    LET subject_text == QuestionsSubjectText(subjects)
    IN  "Generate discussion questions for the book '" \o book_title \o "' about " \o subject_text \o ". Question 1:"

QuestionsMaxLength == 150
MaxAiQuestions == 2
SampleSize == 8

\* [q.strip() + "?" for q in ai_response.split("?") if q.strip()]
RECURSIVE QuestionMarked(_)
QuestionMarked(fragments) ==
    IF fragments = <<>> THEN <<>>
    ELSE (IF Strip(fragments[1]) # "" THEN <<Strip(fragments[1]) \o "?">> ELSE <<>>)
         \o QuestionMarked(Tail(fragments))

\* slip: the [:2] cut is missing
AiQuestionsUncut(ai_response) ==
    IF ai_response # "" /\ Contains(ai_response, "?")
    THEN QuestionMarked(Split(ai_response, "?"))
    ELSE <<>>

\* the questions taken from the backend's text (lines 334-337)
AiQuestions(ai_response) ==
    IF ai_response # "" /\ Contains(ai_response, "?")
    THEN Take(QuestionMarked(Split(ai_response, "?")), MaxAiQuestions)
    ELSE <<>>

SubjectQuestion(book_title, subject) ==
    "How does '" \o book_title \o "' approach the topic of " \o subject \o " differently from other books you've read?"

RECURSIVE SubjectQuestions(_, _)
SubjectQuestions(book_title, subjects) ==
    IF subjects = <<>> THEN <<>>
    ELSE <<SubjectQuestion(book_title, subjects[1])>>
         \o SubjectQuestions(book_title, Tail(subjects))

\* base_questions, with the questions of subjects[:2] appended
BaseQuestions(book_title, authors, subjects) ==
    LET author_text == QuestionsAuthorText(authors)
        subject_text == QuestionsSubjectText(subjects)
    IN  << "What do you think " \o author_text \o " was trying to convey about " \o subject_text \o " in '" \o book_title \o "'?",
           "How do the characters in '" \o book_title \o "' reflect real-world challenges and situations?",
           "What themes in '" \o book_title \o "' are most relevant to today's society?",
           "How does the author's writing style contribute to the overall impact of '" \o book_title \o "'?",
           "What personal connections did you make while reading '" \o book_title \o "'?",
           "What questions would you like to ask " \o author_text \o " about '" \o book_title \o "'?",
           "How might '" \o book_title \o "' influence readers' perspectives on important life decisions?",
           "What scenes or passages from the book do you think would spark the most debate in our book club?",
           "If you were to recommend this book to a friend, what would you tell them to expect?" >>
        \o SubjectQuestions(book_title, Take(subjects, 2))

\* generate_discussion_questions: the questions, what call_huggingface_ai did
\* (it is called only with a token), the draws used
GenerateDiscussionQuestions(token, book_title, authors, subjects, resp, r) ==
    LET prompt == QuestionsPrompt(book_title, subjects)
        called == Truthy(token)
        Result(ai, ai_questions, all_questions) ==
            [value        |-> Sample(all_questions, Min(SampleSize, Len(all_questions)), r),
             ai           |-> IF called THEN Some(ai.value) ELSE None,
             ai_questions |-> ai_questions,
             posts        |-> IF called /\ ai.posted
                              THEN <<HfPost(prompt, QuestionsMaxLength, resp)>>
                              ELSE <<>>,
             raised       |-> FALSE,
             draws        |-> Min(SampleSize, Len(all_questions))]
    IN  \* ai_response, ai_questions and all_questions, in the order of the code
        CHOOSE result \in UNION {
            {Result(ai_response, ai_questions,
                    ai_questions \o BaseQuestions(book_title, authors, subjects)) :
                ai_questions \in {IF called THEN AiQuestions(ai_response.value)
                                  ELSE <<>>}} :
            ai_response \in {CallHuggingfaceAi(token, prompt, resp)}} : TRUE

-----------------------------------------------------------------------------
(* main, lines 491-502: the summary, then the questions, of one book *)

\* what the two calls leave behind
\* slip: a POST that did not bring a text is sent a second time
Retried(posts) ==
    IF posts # <<>> /\ posts[1].outcome # "text" THEN posts \o posts ELSE posts

GeneratedRetried(s, q, r) ==
    [summary      |-> s.value,
     questions    |-> q.value,
     summary_ai   |-> s.ai,
     questions_ai |-> q.ai,
     ai_questions |-> q.ai_questions,
     posts        |-> Retried(s.posts) \o Retried(q.posts),
     raised       |-> s.raised \/ q.raised,
     rng          |-> Advance(r, s.draws + q.draws)]

Generated(s, q, r) ==
    [summary      |-> s.value,
     questions    |-> q.value,
     summary_ai   |-> s.ai,
     questions_ai |-> q.ai,
     ai_questions |-> q.ai_questions,
     posts        |-> s.posts \o q.posts,
     raised       |-> s.raised \/ q.raised,
     rng          |-> Advance(r, s.draws + q.draws)]

\* the summary is generated first, the questions after it has returned (s and q
\* name the two results, each computed once)
GenerateContent(token, book, resp_summary, resp_questions, r) ==
    CHOOSE g \in UNION {
        {Generated(s, q, r) :
            q \in {GenerateDiscussionQuestions(token, book.title, book.authors,
                                               book.subjects, resp_questions,
                                               Advance(r, s.draws))}} :
        s \in {GenerateAiSummary(token, book.title, book.authors, book.subjects,
                                 resp_summary, r)}} : TRUE

-----------------------------------------------------------------------------
(* Inputs of the adapter calls *)

MaxDocs == 2
MaxSubjects == 6

Genres ==
    {None, Some(""), Some(AnyGenre), Some("Film Noir"), Some("sci-fi")}
    \cup {Some(GenreMapping[i][1]) : i \in 1..Len(GenreMapping)}

Authors == {None, Some(""), Some("  "), Some(" Jane Austen "), Some("King")}

Titles == {None, Some(""), Some(" \t"), Some("Dune"), Some(" Emma\n")}

\* the choices of the "Number of Results" selectbox
Limits == {5, 8, 10, 15}
DefaultLimit == 8

RawSubjects == <<"Science fiction", "Deserts", "Ecology", "Politics", "Religion",
                 "Empires", "Messiahs", "Water">>

AbsentField == <<"absent">>
NullField == <<"null">>
ListField(seq) == <<"list", seq>>

RawDoc(title, author_name, subject) ==
    [kind |-> "dict", title |-> title, author_name |-> author_name,
     subject |-> subject, first_publish_year |-> Some(1965), isbn |-> None,
     cover_i |-> Some(11), ratings_average |-> None, ratings_count |-> Some(0)]

\* an entry of docs that is not an object
ScalarDoc ==
    [kind |-> "scalar", title |-> None, author_name |-> None,
     subject |-> AbsentField, first_publish_year |-> None, isbn |-> None,
     cover_i |-> None, ratings_average |-> None, ratings_count |-> None]

SubjectFields ==
    {AbsentField, NullField}
    \cup {ListField(Take(RawSubjects, n)) : n \in {2, MaxSubjects - 1, MaxSubjects}}

RawDocs ==
    {RawDoc(t, a, AbsentField) :
        t \in {None, Some(""), Some("Dune"), Some("Emma")},
        a \in {None, Some(<<>>), Some(<<"Frank Herbert", "Jane Austen">>)}}
    \cup {RawDoc(t, Some(<<"Frank Herbert">>), s) :
            t \in {Some("Dune"), Some("Emma")}, s \in SubjectFields}
    \cup {RawDoc(None, None, NullField), ScalarDoc}

DocLists == UNION {[1..n -> RawDocs] : n \in 0..MaxDocs}

JsonObject(docs) == [type |-> "object", docs |-> docs]
JsonArray == [type |-> "array", docs |-> AbsentField]

Catalogs ==
    {[kind |-> k, body |-> JsonArray] : k \in CatalogFailures}
    \cup {[kind |-> "ok", body |-> b] :
            b \in {JsonArray, JsonObject(AbsentField), JsonObject(NullField)}}
    \cup {[kind |-> "ok", body |-> JsonObject(ListField(docs))] : docs \in DocLists}

OneDocCatalog ==
    [kind |-> "ok",
     body |-> JsonObject(ListField(<<RawDoc(Some("Dune"), Some(<<"Frank Herbert">>),
                                            ListField(Take(RawSubjects, 2)))>>))]

NoEvent == [op |-> "none", idx |-> 0, repeat |-> FALSE]

\* the page's variables, at rest while an adapter is called on its own
PageIdle ==
    /\ hf_token = None
    /\ books = <<>>
    /\ search_performed = FALSE
    /\ event = NoEvent
    /\ shown = None
    /\ requested = {}
    /\ rng = 0

SearchCall(genre, author, title, limit, catalog) ==
    [fn |-> "search_books", genre |-> genre, author |-> author, title |-> title,
     limit |-> limit, catalog |-> catalog]

\* search_books is called once: with every query against one catalog answer, or
\* with one query against every catalog answer
InitSearch ==
    /\ \/ \E g \in Genres, a \in Authors, t \in Titles, l \in Limits :
            /\ l = DefaultLimit \/ (g = None /\ a = None)
            /\ call = SearchCall(g, a, t, l, OneDocCatalog)
       \/ \E c \in Catalogs :
            call = SearchCall(Some("Fiction"), None, Some("Dune"), DefaultLimit, c)
    /\ returned = <<>>
    /\ http = <<>>
    /\ PageIdle

CallSearchBooks ==
    /\ call.fn = "search_books"
    /\ returned = <<>>
    /\ returned' = <<SearchBooks(call.genre, call.author, call.title, call.limit,
                                 call.catalog)>>
    /\ http' = <<CatalogGet(call.genre, call.author, call.title, call.limit,
                            call.catalog)>>
    /\ UNCHANGED <<call, hf_token, books, search_performed, event, shown,
                   requested, rng>>

NextSearch == CallSearchBooks

SpecSearch == InitSearch /\ [][NextSearch]_vars


-----------------------------------------------------------------------------
(* Calls of the generation adapter, as main makes them for one book *)

Book(title, authors, subjects, cover_id) ==
    [title |-> title, authors |-> authors, year |-> Some(1965),
     subjects |-> subjects, isbn |-> None, cover_id |-> cover_id,
     rating |-> None, rating_count |-> Some(0)]

Dune == Book("Dune", <<"Frank Herbert">>,
             <<"Science fiction", "Deserts", "Ecology", "Politics">>, Some(11))
Emma == Book("Emma", <<"Jane Austen", "R. W. Chapman", "Fiona Stafford">>, <<>>, None)
Persuasion == Book("Persuasion", <<"Jane Austen">>, <<"Love", "Love">>, Some(12))
Summa == Book("A Summary of Faith", <<"T. Aquinas">>, <<"Religion">>, Some(13))

GenBooks == {Dune, Emma, Persuasion, Summa}

Tokens == {None, Some(""), Some("hf_token")}

Resp(kind, text) == [kind |-> kind, text |-> text]

HfFailures ==
    {Resp(k, "") : k \in {"exception", "status", "not_json", "json_dict",
                          "empty_list", "scalar_item", "no_text"}}

LongText ==
    " is a story about a desert planet, its spice and the family sent to rule it."

\* answers to the summary prompt: the prompt echoed with a continuation, with
\* nothing, with white space, with a short continuation, echoed twice; text
\* that does not echo the prompt; an empty text
SummaryAnswers(prompt) ==
    HfFailures
    \cup {Resp("text", prompt \o LongText),
          Resp("text", prompt),
          Resp("text", prompt \o "  \n"),
          Resp("text", prompt \o " ends well. "),
          Resp("text", prompt \o prompt \o LongText),
          Resp("text", "It" \o LongText),
          Resp("text", "  Short text. "),
          Resp("text", "")}

NumberedQuestions == "1. What?\n2. Why?\n3. How?"

\* answers to the questions prompt
QuestionsAnswers(prompt) ==
    HfFailures
    \cup {Resp("text", NumberedQuestions),
          Resp("text", prompt \o " What?\n2. Why?\n3. How?"),
          Resp("text", "Why? Why? no"),
          Resp("text", "No questions here"),
          Resp("text", "?"),
          Resp("text", "If you were to recommend this book to a friend, what would you tell them to expect? Really?")}

\* the answers tried when the adapter is called twice
FewAnswers == {Resp("exception", ""), Resp("status", ""), Resp("text", NumberedQuestions)}

GenerateCall(book, answers) == [fn |-> "generate", book |-> book, answers |-> answers]

\* the adapter is called for one book: once with every pair of backend answers,
\* or twice in a row with a few
InitGen ==
    /\ \E b \in GenBooks :
          \/ \E s \in SummaryAnswers(SummaryPrompt(b.title, b.authors, b.subjects)),
                q \in QuestionsAnswers(QuestionsPrompt(b.title, b.subjects)) :
                call = GenerateCall(b, <<<<s, q>>>>)
          \/ \E s1 \in FewAnswers, q1 \in FewAnswers, s2 \in FewAnswers, q2 \in FewAnswers :
                /\ b \in {Dune, Persuasion}
                /\ call = GenerateCall(b, <<<<s1, q1>>, <<s2, q2>>>>)
    /\ hf_token \in Tokens
    /\ rng \in 0..(RngStates - 1)
    /\ returned = <<>>
    /\ http = <<>>
    /\ books = <<>>
    /\ search_performed = FALSE
    /\ event = NoEvent
    /\ shown = None
    /\ requested = {}

\* summary = app.generate_ai_summary(...); questions =
\* app.generate_discussion_questions(...)
CallGenerate ==
    /\ call.fn = "generate"
    /\ Len(returned) < Len(call.answers)
    /\ \E g \in {GenerateContent(hf_token, call.book,
                                   call.answers[Len(returned) + 1][1],
                                   call.answers[Len(returned) + 1][2], rng)} :
          /\ returned' = Append(returned,
                                [summary |-> g.summary, questions |-> g.questions,
                                 summary_ai |-> g.summary_ai,
                                 questions_ai |-> g.questions_ai,
                                 ai_questions |-> g.ai_questions,
                                 posts |-> Len(g.posts), raised |-> g.raised])
          /\ http' = http \o g.posts
          /\ rng' = g.rng
    /\ UNCHANGED <<call, hf_token, books, search_performed, event, shown, requested>>

NextGen == CallGenerate

SpecGen == InitGen /\ [][NextGen]_vars


-----------------------------------------------------------------------------
(* One session of the page: main is run from the top at every interaction,  *)
(* with the widgets' values and at most one button pressed.  st.session_state*)
(* (books, search_performed, the token) is all that outlives a run; http and *)
(* shown hold the requests and the generated content of the latest run.     *)

SessionCall == [fn |-> "session"]

\* the sidebar's text input
TokenInputs == {"", "hf_token"}

\* the search form: genre, author, title
PageGenres == {AnyGenre, "Fiction"}
PageAuthors == {"", " "}
PageTitles == {"", "  ", "Dune "}

DuneDoc == RawDoc(Some("Dune"), Some(<<"Frank Herbert">>), ListField(Take(RawSubjects, 2)))
EmmaDoc == RawDoc(Some("Emma"), Some(<<"Jane Austen", "R. W. Chapman">>), AbsentField)

\* what the catalog answers in the session
PageCatalogs ==
    {[kind |-> "timeout", body |-> JsonArray],
     [kind |-> "ok", body |-> JsonObject(ListField(<<DuneDoc>>))],
     [kind |-> "ok", body |-> JsonObject(ListField(<<EmmaDoc, DuneDoc>>))]}

\* what the backend answers to the summary prompt and to the questions prompt
PageAnswers ==
    {<<Resp("exception", ""), Resp("status", "")>>,
     <<Resp("text", "It" \o LongText), Resp("text", NumberedQuestions)>>}

\* lines 376-389: the sidebar's token replaces app.hf_token when it is not empty
\* (through st.session_state, so it is still used when the input is cleared)
Sidebar(token_input) == IF token_input # "" THEN Some(token_input) ELSE hf_token

\* lines 449-453: the result list is displayed, each book with its button
Displayed == search_performed /\ books # <<>>

\* the identity of a book: title, first author, year, cover_id
BookKey(book) == <<book.title, book.authors[1], book.year, book.cover_id>>

RequestedKeys == {first.key : first \in requested}

Event(op, idx, repeat) == [op |-> op, idx |-> idx, repeat |-> repeat]

InitSession ==
    /\ call = SessionCall
    /\ returned = <<>>
    /\ hf_token \in Tokens
    /\ books = <<>>
    /\ search_performed = FALSE
    /\ event = NoEvent
    /\ http = <<>>
    /\ shown = None
    /\ requested = {}
    /\ rng \in 0..(RngStates - 1)

\* a run with no button pressed (a widget was changed)
Rerun ==
    /\ call.fn = "session"
    /\ \E token_input \in TokenInputs :
          hf_token' = Sidebar(token_input)
    /\ event' = Event("rerun", 0, FALSE)
    /\ http' = <<>>
    /\ shown' = None
    /\ UNCHANGED <<call, returned, books, search_performed, requested, rng>>

\* slip: the test of the criteria is missing, search_books is called with none
SearchWithoutCriterionSearches ==
    /\ call.fn = "session"
    /\ \E token_input \in TokenInputs, selected_genre \in PageGenres,
          author_name \in PageAuthors, book_title \in PageTitles,
          book_limit \in {DefaultLimit}, catalog \in PageCatalogs :
          /\ ~(selected_genre # AnyGenre \/ Strip(author_name) # ""
               \/ Strip(book_title) # "")
          /\ hf_token' = Sidebar(token_input)
          /\ books' = SearchBooks(None, None, None, book_limit, catalog).value
          /\ http' = <<CatalogGet(None, None, None, book_limit, catalog)>>
    /\ search_performed' = TRUE
    /\ event' = Event("warning", 0, FALSE)
    /\ shown' = None
    /\ UNCHANGED <<call, returned, requested, rng>>

\* lines 434-436: the search button with no criterion
SearchWithoutCriterion ==
    /\ call.fn = "session"
    /\ \E token_input \in TokenInputs, selected_genre \in PageGenres,
          author_name \in PageAuthors, book_title \in PageTitles :
          /\ ~(selected_genre # AnyGenre \/ Strip(author_name) # ""
               \/ Strip(book_title) # "")
          /\ hf_token' = Sidebar(token_input)
    /\ event' = Event("warning", 0, FALSE)
    /\ http' = <<>>
    /\ shown' = None
    /\ UNCHANGED <<call, returned, books, search_performed, requested, rng>>

\* lines 437-446: the search button with a criterion
SearchPressed ==
    /\ call.fn = "session"
    /\ \E token_input \in TokenInputs, selected_genre \in PageGenres,
          author_name \in PageAuthors, book_title \in PageTitles,
          book_limit \in {DefaultLimit}, catalog \in PageCatalogs :
          /\ selected_genre # AnyGenre \/ Strip(author_name) # ""
             \/ Strip(book_title) # ""
          /\ hf_token' = Sidebar(token_input)
          /\ \E genre \in {IF selected_genre # AnyGenre THEN Some(selected_genre)
                           ELSE None},
                author \in {IF Strip(author_name) # "" THEN Some(Strip(author_name))
                            ELSE None},
                title \in {IF Strip(book_title) # "" THEN Some(Strip(book_title))
                           ELSE None} :
                /\ books' = SearchBooks(genre, author, title, book_limit, catalog).value
                /\ http' = <<CatalogGet(genre, author, title, book_limit, catalog)>>
    /\ search_performed' = TRUE
    /\ event' = Event("search", 0, FALSE)
    /\ shown' = None
    /\ UNCHANGED <<call, returned, requested, rng>>

\* what the page shows under a book after its button was pressed (lines 505-519)
Content(i, g) ==
    Some([idx |-> i, summary |-> g.summary, questions |-> g.questions,
          raised |-> g.raised])

\* the first summary and questions computed for each book identity
FirstRequests(book, g) ==
    IF BookKey(book) \in RequestedKeys THEN requested
    ELSE requested \cup {[key |-> BookKey(book), summary |-> g.summary,
                          questions |-> g.questions]}

\* slip: the result of the first request for a book identity is kept and shown
\* again
GenerateBookCached(i) ==
    /\ call.fn = "session"
    /\ Displayed
    /\ i \in 1..Len(books)
    /\ \E token_input \in TokenInputs, answers \in PageAnswers :
          /\ hf_token' = Sidebar(token_input)
          /\ IF BookKey(books[i]) \in RequestedKeys
             THEN \E first \in requested :
                     /\ first.key = BookKey(books[i])
                     /\ shown' = Some([idx |-> i, summary |-> first.summary,
                                       questions |-> first.questions, raised |-> FALSE])
                     /\ http' = <<>>
                     /\ UNCHANGED <<rng, requested>>
             ELSE \E g \in {GenerateContent(Sidebar(token_input), books[i],
                                            answers[1], answers[2], rng)} :
                     /\ shown' = Content(i, g)
                     /\ http' = g.posts
                     /\ rng' = g.rng
                     /\ requested' = FirstRequests(books[i], g)
    /\ event' = Event("generate", i, BookKey(books[i]) \in RequestedKeys)
    /\ UNCHANGED <<call, returned, books, search_performed>>

\* lines 485-502: the button of the i-th displayed book
GenerateBook(i) ==
    /\ call.fn = "session"
    /\ Displayed
    /\ i \in 1..Len(books)
    /\ \E token_input \in TokenInputs, answers \in PageAnswers :
          /\ hf_token' = Sidebar(token_input)
          /\ \E g \in {GenerateContent(Sidebar(token_input), books[i],
                                       answers[1], answers[2], rng)} :
                /\ shown' = Content(i, g)
                /\ http' = g.posts
                /\ rng' = g.rng
                /\ requested' = FirstRequests(books[i], g)
    /\ event' = Event("generate", i, BookKey(books[i]) \in RequestedKeys)
    /\ UNCHANGED <<call, returned, books, search_performed>>

GenerateSome == \E i \in 1..MaxDocs : GenerateBook(i)

Init == InitSession

Next ==
    \/ Rerun
    \/ SearchWithoutCriterion
    \/ SearchPressed
    \/ GenerateSome

Spec == Init /\ [][Next]_vars


-----------------------------------------------------------------------------
(* Properties of search_books, checked under SpecSearch *)

SearchDone == call.fn = "search_books" /\ returned # <<>>

\* the q parameter of the GET that was sent
SentQuery == http[1].params.q

\* the text a title or author input contributes, written out per input
ExpectedText(input) ==
    CASE input = Some(" Jane Austen ") -> "Jane Austen"
      [] input = Some("King")          -> "King"
      [] input = Some("Dune")          -> "Dune"
      [] input = Some(" Emma\n")       -> "Emma"
      [] OTHER                         -> ""

\* the subject term a genre input contributes, written out per input
ExpectedTerm(genre) ==
    CASE genre = Some("Science Fiction") -> "science fiction"
      [] genre = Some("Self-Help")       -> "self help"
      [] genre = Some("Fiction")         -> "fiction"
      [] genre = Some("Mystery")         -> "mystery"
      [] genre = Some("Romance")         -> "romance"
      [] genre = Some("Fantasy")         -> "fantasy"
      [] genre = Some("Biography")       -> "biography"
      [] genre = Some("History")         -> "history"
      [] genre = Some("Business")        -> "business"
      [] genre = Some("Philosophy")      -> "philosophy"
      [] genre = Some("Psychology")      -> "psychology"
      [] genre = Some("Poetry")          -> "poetry"
      [] genre = Some("Horror")          -> "horror"
      [] genre = Some("Thriller")        -> "thriller"
      [] genre = Some("Adventure")       -> "adventure"
      [] genre = Some("Film Noir")       -> "film noir"
      [] genre = Some("sci-fi")          -> "sci-fi"
      [] OTHER                           -> ""

ExpectedClauses(genre, author, title) ==
       (IF ExpectedText(title) # ""
        THEN <<"title:\"" \o ExpectedText(title) \o "\"">> ELSE <<>>)
    \o (IF ExpectedText(author) # ""
        THEN <<"author:\"" \o ExpectedText(author) \o "\"">> ELSE <<>>)
    \o (IF ExpectedTerm(genre) # ""
        THEN <<"subject:\"" \o ExpectedTerm(genre) \o "\"">> ELSE <<>>)

ExpectedQuery(genre, author, title) ==
    LET c == ExpectedClauses(genre, author, title)
    IN  CASE Len(c) = 0 -> "fiction"
          [] Len(c) = 1 -> c[1]
          [] Len(c) = 2 -> c[1] \o " AND " \o c[2]
          [] Len(c) = 3 -> c[1] \o " AND " \o c[2] \o " AND " \o c[3]

\* C1: the query sent to the catalog is the clauses of the non-empty inputs
\* (title, author, genre, in that order, each field:"value" with the input's
\* text trimmed) joined by " AND ", and exactly "fiction" when no input is given.
T_C1 ==
    SearchDone =>
        /\ SentQuery = Some(ExpectedQuery(call.genre, call.author, call.title))
        /\ http[1].params.subject = None

W_C1 ==
    /\ SearchDone
    /\ call.title = Some(" Emma\n")
    /\ call.author = Some(" Jane Austen ")
    /\ call.genre = Some("Mystery")
    /\ SentQuery = Some("title:\"Emma\" AND author:\"Jane Austen\" AND subject:\"mystery\"")

EndsWith(s, suffix) ==
    Len(suffix) <= Len(s) /\ SubSeq(s, Len(s) - Len(suffix) + 1, Len(s)) = suffix

\* C2: the genre clause is subject:"science fiction" for "Science Fiction",
\* subject:"self help" for "Self-Help", and subject:"x" with x the lower-cased
\* genre for every other genre, in the built-in table or not; it is the last
\* clause of the query.
T_C2 ==
    (SearchDone /\ call.genre \notin {None, Some(""), Some(AnyGenre)}) =>
        LET clause == "subject:\"" \o ExpectedTerm(call.genre) \o "\""
        IN  /\ SentQuery # None
            /\ EndsWith(SentQuery[1], clause)
            /\ ~Contains(SubSeq(SentQuery[1], 1, Len(SentQuery[1]) - Len(clause)),
                         "subject:")

W_C2 ==
    /\ SearchDone
    /\ call.genre = Some("Self-Help")
    /\ call.title = None
    /\ call.author = None
    /\ SentQuery = Some("subject:\"self help\"")

\* the docs of a catalog answer that is a JSON object holding a list of docs
AnsweredDocs == call.catalog.body.docs[2]

\* the request succeeded with a body of the expected shape: an object whose docs
\* are objects with a subject list or none
WellFormedAnswer ==
    /\ call.catalog.kind = "ok"
    /\ call.catalog.body.type = "object"
    /\ call.catalog.body.docs[1] = "list"
    /\ \A i \in 1..Len(AnsweredDocs) :
          /\ AnsweredDocs[i].kind = "dict"
          /\ AnsweredDocs[i].subject[1] \in {"absent", "list"}

RawSubjectList(doc) == IF doc.subject[1] = "list" THEN doc.subject[2] ELSE <<>>

\* C3: every record search_books returns has a non-empty title, a non-empty
\* author list and at most 5 subjects; of a well-formed answer exactly the docs
\* with a title and an author are returned, in their order, each with the first
\* 5 entries of its raw subject list.
T_C3 ==
    SearchDone =>
        LET ret == returned[1].value
        IN  /\ \A j \in 1..Len(ret) :
                  /\ ret[j].title # ""
                  /\ ret[j].authors # <<>>
                  /\ Len(ret[j].subjects) <= 5
            /\ WellFormedAnswer =>
                  LET kept == {i \in 1..Len(AnsweredDocs) :
                                  /\ AnsweredDocs[i].title \notin {None, Some("")}
                                  /\ AnsweredDocs[i].author_name \notin {None, Some(<<>>)}}
                  IN  /\ Len(ret) = Cardinality(kept)
                      /\ \A i \in kept :
                            LET j == Cardinality({k \in kept : k <= i})
                                raw == RawSubjectList(AnsweredDocs[i])
                            IN  /\ ret[j].title = AnsweredDocs[i].title[1]
                                /\ ret[j].authors = AnsweredDocs[i].author_name[1]
                                /\ Len(ret[j].subjects) = IF Len(raw) < 5 THEN Len(raw) ELSE 5
                                /\ \A n \in 1..Len(ret[j].subjects) :
                                      ret[j].subjects[n] = raw[n]

W_C3 ==
    /\ SearchDone
    /\ WellFormedAnswer
    /\ Len(AnsweredDocs) = 2
    /\ AnsweredDocs[1].author_name = Some(<<>>)
    /\ AnsweredDocs[1].title = Some("Dune")
    /\ Len(RawSubjectList(AnsweredDocs[2])) > 5
    /\ Len(returned[1].value) = 1
    /\ returned[1].value[1].title = "Emma"
    /\ Len(returned[1].value[1].subjects) = 5

\* the catalog request failed: a transport error, a timeout, a non-success
\* status, or a body that is not JSON, not an object, or whose docs are not a
\* list of objects
CatalogFailed ==
    \/ call.catalog.kind \in {"transport_error", "timeout", "http_error", "not_json"}
    \/ call.catalog.body.type # "object"
    \/ call.catalog.body.docs[1] = "null"
    \/ /\ call.catalog.body.docs[1] = "list"
       /\ \E i \in 1..Len(AnsweredDocs) : AnsweredDocs[i].kind # "dict"

\* C4: when the catalog request fails (transport error, timeout, non-success
\* status, body of an unexpected shape) search_books returns the empty list and
\* no exception reaches its caller.
T_C4 ==
    (SearchDone /\ CatalogFailed) =>
        /\ returned[1].value = <<>>
        /\ ~returned[1].raised

W_C4 ==
    /\ SearchDone
    /\ call.catalog.kind = "http_error"
    /\ returned[1].value = <<>>
    /\ returned[1].error_shown

-----------------------------------------------------------------------------
(* Properties of the generation adapter, checked under SpecGen *)

Calls == 1..Len(returned)

GenCalled == call.fn = "generate"

\* a credential is configured, so the backend is called
Configured == hf_token \notin {None, Some("")}

SummaryAnswer(i) == call.answers[i][1]
QuestionsAnswer(i) == call.answers[i][2]

\* the backend call failed: a transport error, a status other than 200, or a
\* body that is not the list of {"generated_text": ...} expected
Failed(answer) ==
    answer.kind \in {"exception", "status", "not_json", "json_dict", "empty_list",
                     "scalar_item", "no_text"}

TemplateQuestions ==
    Range(BaseQuestions(call.book.title, call.book.authors, call.book.subjects))

\* the paragraph a failed summary call is replaced by, and the sentence before it
FallbackParagraphEnd == "provides both entertainment and insight into the human condition."
SummaryHead == "'" \o call.book.title \o "' by " \o call.book.authors[1]

\* C5 (as stated): when the backend call fails, the summary is the empty string
\* and the question list is empty, and nothing is raised.
CE_C5 ==
    (GenCalled /\ Configured) =>
        \A i \in Calls :
            /\ Failed(SummaryAnswer(i)) => returned[i].summary = ""
            /\ Failed(QuestionsAnswer(i)) => returned[i].questions = <<>>
            /\ ~returned[i].raised

\* C5 (amended): when the backend call fails nothing is raised, but neither
\* result is empty: the summary is the sentence "'<title>' by <authors> explores
\* themes of <subjects>." followed by the fixed fallback paragraph, and the
\* question list is 8 of the book's template questions.
T_C5 ==
    (GenCalled /\ Configured) =>
        \A i \in Calls :
            /\ Failed(SummaryAnswer(i)) =>
                  /\ StartsWith(returned[i].summary, SummaryHead)
                  /\ Contains(returned[i].summary, " explores themes of ")
                  /\ EndsWith(returned[i].summary, FallbackParagraphEnd)
            /\ Failed(QuestionsAnswer(i)) =>
                  /\ Len(returned[i].questions) = 8
                  /\ Range(returned[i].questions) \subseteq TemplateQuestions
            /\ ~returned[i].raised

W_C5 ==
    /\ GenCalled /\ Configured
    /\ Len(returned) = 1
    /\ SummaryAnswer(1).kind = "status"
    /\ QuestionsAnswer(1).kind = "not_json"
    /\ Len(returned[1].summary) > 300
    /\ Len(returned[1].questions) = 8
    /\ returned[1].posts = 2

NumberedAnswer(i) == QuestionsAnswer(i) = Resp("text", NumberedQuestions)

\* C6 (as stated): the numbering is stripped and the distinct lines are returned
\* in order: for "1. What?\n2. Why?\n3. How?" the list is exactly
\* ["What?", "Why?", "How?"].
CE_C6 ==
    (GenCalled /\ Configured) =>
        \A i \in Calls :
            NumberedAnswer(i) => returned[i].questions = <<"What?", "Why?", "How?">>

\* C6 (amended): the backend text is split on "?", each fragment is trimmed and
\* given its "?" back, and the first two non-empty fragments are kept, numbering
\* included (no prefix is stripped, nothing is de-duplicated, there is no k); the
\* list returned is 8 questions drawn from these and the template questions.  For
\* "1. What?\n2. Why?\n3. How?" the questions kept are "1. What?" and "2. Why?".
T_C6 ==
    (GenCalled /\ Configured) =>
        \A i \in Calls :
            /\ NumberedAnswer(i) =>
                  /\ returned[i].ai_questions = <<"1. What?", "2. Why?">>
                  /\ Len(returned[i].questions) = 8
                  /\ Range(returned[i].questions)
                        \subseteq {"1. What?", "2. Why?"} \cup TemplateQuestions
            /\ QuestionsAnswer(i).kind = "text" =>
                  /\ Len(returned[i].ai_questions) <= 2
                  /\ \A n \in 1..Len(returned[i].ai_questions) :
                        LET q == returned[i].ai_questions[n]
                            fragment == SubSeq(q, 1, Len(q) - 1)
                        IN  /\ EndsWith(q, "?")
                            /\ fragment # ""
                            /\ CharAt(fragment, 1) \notin Whitespace
                            /\ CharAt(fragment, Len(fragment)) \notin Whitespace
                            /\ ~Contains(fragment, "?")
                            /\ Contains(returned[i].questions_ai[1], fragment)

W_C6 ==
    /\ GenCalled /\ Configured
    /\ Len(returned) = 1
    /\ NumberedAnswer(1)
    /\ returned[1].questions[1] = "1. What?"
    /\ returned[1].questions[2] = "2. Why?"

Occurrences(seq, x) == Cardinality({n \in 1..Len(seq) : seq[n] = x})

HasDuplicates(seq) == \E m, n \in 1..Len(seq) : m < n /\ seq[m] = seq[n]

\* the questions generate_discussion_questions drew from
QuestionPool(i) ==
    returned[i].ai_questions
    \o BaseQuestions(call.book.title, call.book.authors, call.book.subjects)

\* C7 (as stated): the question list has no duplicates and at most k (default 5)
\* entries.
CE_C7 ==
    GenCalled =>
        \A i \in Calls :
            /\ ~HasDuplicates(returned[i].questions)
            /\ Len(returned[i].questions) <= 5

\* C7 (amended): the question list has exactly 8 entries (there is no k), drawn
\* from distinct positions of the pool of parsed and template questions; a string
\* is repeated in it only if it is repeated in the pool (two equal parsed
\* questions, a parsed question equal to a template one, or the book's first two
\* subjects equal).
T_C7 ==
    GenCalled =>
        \A i \in Calls :
            /\ Len(returned[i].questions) = 8
            /\ \A n \in 1..8 :
                  Occurrences(returned[i].questions, returned[i].questions[n])
                     <= Occurrences(QuestionPool(i), returned[i].questions[n])

W_C7 ==
    /\ GenCalled
    /\ Len(returned) = 1
    /\ Len(returned[1].questions) = 8
    /\ HasDuplicates(returned[1].questions)
    /\ ~Configured

\* the remainder of a text that starts with the prompt
AfterPrompt(text, prompt) == SubSeq(text, Len(prompt) + 1, Len(text))

SummaryPromptOf(book) == SummaryPrompt(book.title, book.authors, book.subjects)

\* C8 (as stated): a generated_text that starts with the prompt is returned
\* with the prompt prefix removed (trimmed or not), and what is returned never
\* begins with the prompt; any other text is returned unchanged.
CE_C8 ==
    (GenCalled /\ Configured) =>
        \A i \in Calls :
            LET text == SummaryAnswer(i).text
                prompt == SummaryPromptOf(call.book)
                ret == returned[i].summary_ai
            IN  SummaryAnswer(i).kind = "text" =>
                   IF StartsWith(text, prompt)
                   THEN /\ ret \in {AfterPrompt(text, prompt),
                                    Strip(AfterPrompt(text, prompt))}
                        /\ ~StartsWith(ret, prompt)
                   ELSE ret = text

\* C8 (amended): a generated_text that starts with the prompt is returned with
\* the prompt removed once and the rest trimmed of white space (so a text that
\* repeats the prompt is returned still beginning with it), and the fixed
\* fallback text is returned when nothing is left; a text that does not start
\* with the prompt is returned unchanged when it is not empty, and replaced by
\* the fixed fallback text when it is.
T_C8 ==
    (GenCalled /\ Configured) =>
        \A i \in Calls :
            LET text == SummaryAnswer(i).text
                prompt == SummaryPromptOf(call.book)
                ret == returned[i].summary_ai
                rest == Strip(AfterPrompt(text, prompt))
            IN  SummaryAnswer(i).kind = "text" =>
                   IF StartsWith(text, prompt)
                   THEN IF rest # "" THEN ret = rest
                        ELSE EndsWith(ret, FallbackParagraphEnd)
                   ELSE IF text # "" THEN ret = text
                        ELSE EndsWith(ret, FallbackParagraphEnd)

W_C8 ==
    /\ GenCalled /\ Configured
    /\ Len(returned) = 1
    /\ SummaryAnswer(1).kind = "text"
    /\ StartsWith(SummaryAnswer(1).text,
                  SummaryPromptOf(call.book) \o SummaryPromptOf(call.book))
    /\ StartsWith(returned[1].summary_ai, SummaryPromptOf(call.book))

\* both calls of the pair found the backend unreachable
UnreachableTwice ==
    /\ GenCalled /\ Configured
    /\ Len(returned) = 2
    /\ \A i \in 1..2 : SummaryAnswer(i).kind = "exception"
                       /\ QuestionsAnswer(i).kind = "exception"

\* C9 (as stated): with an unreachable backend two calls for the same book both
\* return the empty summary and the empty question list, and raise nothing.
CE_C9 ==
    UnreachableTwice =>
        /\ returned[1].summary = "" /\ returned[2].summary = ""
        /\ returned[1].questions = <<>> /\ returned[2].questions = <<>>
        /\ ~returned[1].raised /\ ~returned[2].raised

\* C9 (amended): with an unreachable backend two calls for the same book raise
\* nothing and return the same summary, which is not empty (the fallback
\* paragraph after the book's sentence); each call returns 8 of the book's
\* template questions, drawn at random, so the two lists need not be equal.
T_C9 ==
    UnreachableTwice =>
        /\ returned[1].summary = returned[2].summary
        /\ StartsWith(returned[1].summary, SummaryHead)
        /\ EndsWith(returned[1].summary, FallbackParagraphEnd)
        /\ \A i \in 1..2 :
              /\ Len(returned[i].questions) = 8
              /\ Range(returned[i].questions) \subseteq TemplateQuestions
              /\ ~returned[i].raised

W_C9 ==
    /\ UnreachableTwice
    /\ returned[1].summary = returned[2].summary
    /\ returned[1].questions # returned[2].questions

\* the sentence generate_ai_summary puts before the text it was given
ExpectedIntro ==
    CASE call.book.title = "Dune" ->
            "'Dune' by Frank Herbert explores themes of Science fiction, Deserts, Ecology. "
      [] call.book.title = "Emma" ->
            "'Emma' by Jane Austen, R. W. Chapman explores themes of general literature. "
      [] call.book.title = "Persuasion" ->
            "'Persuasion' by Jane Austen explores themes of Love, Love. "
      [] call.book.title = "A Summary of Faith" ->
            "'A Summary of Faith' by T. Aquinas explores themes of Religion. "

\* C12: with no credential (hf_token absent or empty) neither generation method
\* sends a request to the backend, and both results are built from fixed text
\* and the book's title, authors and subjects only: the summary is the book's
\* sentence followed by the fixed fallback paragraph, whatever the backend would
\* have answered, and the questions are 8 of the book's template questions.
T_C12 ==
    (GenCalled /\ ~Configured) =>
        /\ http = <<>>
        /\ \A i \in Calls :
              /\ returned[i].posts = 0
              /\ returned[i].summary = ExpectedIntro \o FallbackSummary
              /\ returned[i].ai_questions = <<>>
              /\ Len(returned[i].questions) = 8
              /\ Range(returned[i].questions) \subseteq TemplateQuestions
              /\ ~returned[i].raised

W_C12 ==
    /\ GenCalled
    /\ hf_token = Some("")
    /\ Len(returned) = 1
    /\ SummaryAnswer(1).kind = "text"
    /\ NumberedAnswer(1)
    /\ http = <<>>
    /\ EndsWith(returned[1].summary, FallbackParagraphEnd)
    /\ "1. What?" \notin Range(returned[1].questions)

-----------------------------------------------------------------------------
(* Properties of the session, checked under Spec *)

\* the latest run answered the button of a displayed book
GenerateRun == call.fn = "session" /\ event.op = "generate"

\* the summary and questions first computed in the session for the book whose
\* button was pressed
FirstComputed == CHOOSE first \in requested : first.key = BookKey(books[event.idx])

PostsOf(log) == {n \in 1..Len(log) : log[n].method = "POST"}

\* C10 (as stated): a generation request for a book with the same (title, first
\* author, year, cover_id) as an earlier one of the session shows the summary
\* and questions computed first and issues no call to the generation backend.
CE_C10 ==
    (GenerateRun /\ event.repeat) =>
        /\ PostsOf(http) = {}
        /\ shown[1].summary = FirstComputed.summary
        /\ shown[1].questions = FirstComputed.questions

\* C10 (amended): nothing is reused within a session: every generation request,
\* a repeat for a book with the same (title, first author, year, cover_id)
\* included, generates the summary and the questions again, with the summary POST
\* and then the questions POST to the generation backend when a credential is
\* configured and no request when none is.
T_C10 ==
    GenerateRun =>
        /\ shown # None
        /\ shown[1].idx = event.idx
        /\ Len(shown[1].questions) = 8
        /\ IF Configured
           THEN /\ Len(http) = 2
                /\ PostsOf(http) = {1, 2}
                /\ http[1].prompt = SummaryPromptOf(books[event.idx])
                /\ http[2].prompt = QuestionsPrompt(books[event.idx].title,
                                                    books[event.idx].subjects)
           ELSE http = <<>>

W_C10 ==
    /\ GenerateRun /\ event.repeat
    /\ Configured
    /\ PostsOf(http) = {1, 2}
    /\ shown[1].summary # FirstComputed.summary
    /\ shown[1].questions # FirstComputed.questions

\* the latest run made a search (the button was pressed with a criterion)
SearchRun == call.fn = "session" /\ event.op = "search"

GetsOf(log) == {n \in 1..Len(log) : log[n].method = "GET"}

\* C11: a search issues exactly one catalog GET; a per-book generation request
\* issues at most two generation-backend POSTs, the summary's before the
\* questions'; a request that failed is not sent again.
T_C11 ==
    /\ SearchRun =>
          /\ Len(http) = 1
          /\ GetsOf(http) = {1}
          /\ http[1].url = "https://openlibrary.org/search.json"
    /\ GenerateRun =>
          /\ Len(http) <= 2
          /\ GetsOf(http) = {}
          /\ \A m, n \in 1..Len(http) : m # n => http[m].prompt # http[n].prompt
          /\ \A n \in 1..Len(http) :
                /\ http[n].url = "https://api-inference.huggingface.co/models/gpt2"
                /\ http[n].prompt = SummaryPromptOf(books[event.idx]) => n = 1
                /\ http[n].prompt = QuestionsPrompt(books[event.idx].title,
                                                    books[event.idx].subjects)
                      => n = Len(http)
                /\ http[n].prompt \in {SummaryPromptOf(books[event.idx]),
                                       QuestionsPrompt(books[event.idx].title,
                                                       books[event.idx].subjects)}
    /\ (call.fn = "session" /\ event.op \notin {"search", "generate"}) => http = <<>>

W_C11 ==
    /\ GenerateRun
    /\ Len(http) = 2
    /\ http[1].outcome = "exception"
    /\ http[1].max_length = 250
    /\ http[2].outcome = "status"
    /\ http[2].max_length = 150
    /\ books[event.idx].title = "Emma"

\* the latest run found the search button pressed with no criterion
NoCriterionRun == call.fn = "session" /\ event.op = "warning"

\* C13: a press of the search button with no criterion (genre "Any Genre",
\* author and title empty or white space) sends no catalog request and leaves
\* the session's book list and search_performed flag as they were, so results
\* displayed before are still displayed; and no request of the page carries the
\* default query 'fiction'.
T_C13 ==
    [][/\ NoCriterionRun' =>
             /\ http' = <<>>
             /\ books' = books
             /\ search_performed' = search_performed
             /\ Displayed' = Displayed
       /\ \A n \in 1..Len(http') :
             http'[n].method = "GET" => http'[n].params.q # Some("fiction")]_vars

W_C13 ==
    /\ NoCriterionRun
    /\ http = <<>>
    /\ Displayed
    /\ Len(books) = 2
    /\ requested # {}

====
